---- MODULE Spec2Model ----
(***************************************************************************)
(* Pricing snapshot lifecycle (convex/pricing.ts), the quotation resolver  *)
(* (lib/pricing/quotation.ts) and the quotation HTTP route of the          *)
(* sap-automation repository.                                              *)
(*                                                                         *)
(* Conventions                                                             *)
(*  - a document id of table pricingSnapshots is its position in `snaps`;  *)
(*    0 stands for null / undefined;                                       *)
(*  - a JavaScript string whose characters matter (item names) is a        *)
(*    sequence of one-character strings; a string that is only compared    *)
(*    and tested for emptiness (sku, unit, currency) is a TLA+ string;     *)
(*  - an error message is the sequence of its words;                       *)
(*  - a JavaScript number is a record [k, v]: k = "fin" with v the value   *)
(*    in thousandths, k = "nan", or k = "inf" with v the sign.             *)
(***************************************************************************)
EXTENDS Integers, Sequences, FiniteSets, TLC

\* ------------------------------------------------------------------ bounds
MaxSnap == 2        \* snapshots that createPricingSnapshot may insert
NumCallers == 2     \* clients calling the store concurrently
MaxItems == 2       \* length of a quotation request's item list
MaxLen == 4         \* length of a name handed to the normalizer
MaxCols == 2        \* cells of a header row
MaxMills == 30      \* largest amount, in thousandths, handed to round2

Callers == 1..NumCallers
\* ids a caller may pass to flipCurrentSnapshot: every id the table can hold
\* and one id that never names a document
SnapshotIds == 1..(MaxSnap + 1)

\* ------------------------------------------------------- JavaScript numbers
Fin(n) == [k |-> "fin", v |-> n]
NaN == [k |-> "nan", v |-> 0]
PosInf == [k |-> "inf", v |-> 1]
NegInf == [k |-> "inf", v |-> -1]

\* whole units to thousandths
Units(n) == Fin(n * 1000)

\* ------------------------------------------------------------- price items
PriceItem(sku, name, normalizedName, unit, currency, unitPrice) ==
  [sku |-> sku, name |-> name, normalizedName |-> normalizedName,
   unit |-> unit, currency |-> currency, unitPrice |-> unitPrice]

\* the item lists handed to createPricingSnapshot
CatalogA ==
  << PriceItem("A1", <<"A", "b">>, <<"a", "b">>, "kg", "USD", Fin(12005)),
     PriceItem("A2", <<"a", "b">>, <<"a", "b">>, "", "EUR", Fin(2500)),
     PriceItem("B7", <<"A", "-", "b">>, <<"a", " ", "b">>, "unit", "", Fin(10000)) >>

CatalogB ==
  << PriceItem("A1", <<"a", "b">>, <<"a", "b">>, "unit", "USD", NaN),
     PriceItem("A1", <<"A", " ", "b">>, <<"a", " ", "b">>, "kg", "", Fin(3335)),
     PriceItem("", <<"!">>, <<>>, "unit", "USD", Fin(500)) >>

Catalogs == {CatalogA, CatalogB}

\* ---------------------------------------------------------- name normalizer
UpperCase == <<"A", "B", "C", "D", "E", "F", "G", "H", "I", "J", "K", "L", "M",
               "N", "O", "P", "Q", "R", "S", "T", "U", "V", "W", "X", "Y", "Z">>
LowerCase == <<"a", "b", "c", "d", "e", "f", "g", "h", "i", "j", "k", "l", "m",
               "n", "o", "p", "q", "r", "s", "t", "u", "v", "w", "x", "y", "z">>
Digits == {"0", "1", "2", "3", "4", "5", "6", "7", "8", "9"}
WhiteSpace == {" ", "\t", "\n"}

Range(f) == {f[i] : i \in DOMAIN f}

\* String.prototype.toLowerCase, one character
ToLowerChar(ch) ==
  IF \E i \in 1..26 : UpperCase[i] = ch
  THEN LowerCase[CHOOSE i \in 1..26 : UpperCase[i] = ch]
  ELSE ch

ToLowerCase(str) == [i \in 1..Len(str) |-> ToLowerChar(str[i])]

\* .replace(/[^a-z0-9\s]/g, " ")
ReplaceNonAlnum(str) ==
  [i \in 1..Len(str) |->
     IF str[i] \in Range(LowerCase) \cup Digits \cup WhiteSpace
     THEN str[i] ELSE " "]

\* .replace(/\s+/g, " "): every maximal run of whitespace becomes one space
RECURSIVE CollapseSpaces(_)
CollapseSpaces(str) ==
  IF str = <<>> THEN <<>>
  ELSE IF Head(str) \in WhiteSpace
       THEN IF Len(str) > 1 /\ str[2] \in WhiteSpace
            THEN CollapseSpaces(Tail(str))
            ELSE <<" ">> \o CollapseSpaces(Tail(str))
       ELSE <<Head(str)>> \o CollapseSpaces(Tail(str))

\* .trim()
RECURSIVE TrimStart(_)
TrimStart(str) ==
  IF str # <<>> /\ Head(str) \in WhiteSpace THEN TrimStart(Tail(str)) ELSE str

RECURSIVE TrimEnd(_)
TrimEnd(str) ==
  IF str # <<>> /\ str[Len(str)] \in WhiteSpace
  THEN TrimEnd(SubSeq(str, 1, Len(str) - 1)) ELSE str

Trim(str) == TrimEnd(TrimStart(str))

\* mutant: whitespace is collapsed before the punctuation is replaced
normalizeNameCollapseFirst(name) ==
  Trim(ReplaceNonAlnum(CollapseSpaces(ToLowerCase(name))))

\* normalizeName(name); an absent name is (name || "") = ""
normalizeName(name) ==
  Trim(CollapseSpaces(ReplaceNonAlnum(ToLowerCase(name))))

\* ------------------------------------------------------ quotation resolver
\* optional string fields of a QuoteInputItem
NoSku == [has |-> FALSE, v |-> ""]
Sku(s) == [has |-> TRUE, v |-> s]
NoName == [has |-> FALSE, v |-> <<>>]
Name(s) == [has |-> TRUE, v |-> s]
NoCurrency == [has |-> FALSE, v |-> ""]

QuoteInputItem(sku, name, quantity) ==
  [sku |-> sku, name |-> name, quantity |-> quantity]

\* the input items a quotation request is made of
InputItems ==
  { QuoteInputItem(Sku("A1"), NoName, Units(2)),
    QuoteInputItem(Sku("A2"), Name(<<" ", "A", "-", "-", "b">>), Units(3)),
    QuoteInputItem(NoSku, Name(<<"A", "B">>), Units(1)),
    QuoteInputItem(Sku(""), Name(<<"!">>), Units(1)),
    QuoteInputItem(Sku("A1"), NoName, Units(0)),
    QuoteInputItem(Sku("A1"), Name(<<"A", "B">>), Units(-5)),
    QuoteInputItem(Sku("ZZZ"), NoName, NaN),
    QuoteInputItem(Sku("A1"), NoName, PosInf) }

\* all lists of at most n input items
RECURSIVE ListsUpTo(_)
ListsUpTo(n) ==
  IF n = 0 THEN {<<>>}
  ELSE LET shorter == ListsUpTo(n - 1)
       IN shorter \cup {Append(l, i) : l \in {x \in shorter : Len(x) = n - 1},
                                       i \in InputItems}

ItemLists == ListsUpTo(MaxItems)

\* JavaScript truthiness of a string / of a number
TruthySku(o) == o.has /\ o.v # ""
TruthyName(o) == o.has /\ o.v # <<>>
TruthyNum(n) == ~(n.k = "nan" \/ (n.k = "fin" /\ n.v = 0))

\* n <= 0
LeqZero(n) == (n.k = "fin" /\ n.v <= 0) \/ (n.k = "inf" /\ n.v < 0)

Sign(n) == IF n.v > 0 THEN 1 ELSE IF n.v < 0 THEN -1 ELSE 0

\* a * b; finite values are thousandths, b a quantity in whole units
Times(a, b) ==
  IF a.k = "nan" \/ b.k = "nan" THEN NaN
  ELSE IF a.k = "fin" /\ b.k = "fin" THEN Fin((a.v * b.v) \div 1000)
  ELSE IF Sign(a) * Sign(b) = 0 THEN NaN
  ELSE [k |-> "inf", v |-> Sign(a) * Sign(b)]

\* a + b
Plus(a, b) ==
  IF a.k = "nan" \/ b.k = "nan" THEN NaN
  ELSE IF a.k = "fin" /\ b.k = "fin" THEN Fin(a.v + b.v)
  ELSE IF a.k = "inf" /\ b.k = "inf"
       THEN IF a.v = b.v THEN a ELSE NaN
  ELSE IF a.k = "inf" THEN a ELSE b

\* Math.round((n + Number.EPSILON) * 100) / 100 on thousandths: Math.round is
\* floor(x + 0.5); Number.EPSILON is below the resolution of the model
round2(n) ==
  IF n.k = "fin" THEN Fin(10 * ((n.v + 5) \div 10)) ELSE n

\* mutant: if (!map.has(key)) map.set(key, val)
MapSetKeepFirst(m, key, val) ==
  [x \in (DOMAIN m) \cup {key} |-> IF x \in DOMAIN m THEN m[x] ELSE val]

\* Map.prototype.set
MapSet(m, key, val) ==
  [x \in (DOMAIN m) \cup {key} |-> IF x = key THEN val ELSE m[x]]

EmptyMap == [x \in {} |-> 0]

\* for (const it of snapshot.items) if (it.sku) bySku.set(String(it.sku), it)
RECURSIVE BuildBySku(_, _)
BuildBySku(m, items) ==
  IF items = <<>> THEN m
  ELSE LET it == Head(items)
       IN BuildBySku(IF it.sku # "" THEN MapSet(m, it.sku, it) ELSE m,
                     Tail(items))

\* ... if (it.normalizedName) byNormName.set(String(it.normalizedName), it)
RECURSIVE BuildByNormName(_, _)
BuildByNormName(m, items) ==
  IF items = <<>> THEN m
  ELSE LET it == Head(items)
       IN BuildByNormName(IF it.normalizedName # <<>>
                          THEN MapSet(m, it.normalizedName, it) ELSE m,
                          Tail(items))

\* the result of a lookup: found is FALSE for undefined / null
NoMatch == [found |-> FALSE]
MapGet(m, key) ==
  IF key \in DOMAIN m THEN [found |-> TRUE, item |-> m[key]] ELSE NoMatch

\* mutant: the name index first, then the sku index
FindMatchNameFirst(bySku, byNormName, input) ==
  LET m1 == IF TruthyName(input.name)
            THEN MapGet(byNormName, normalizeName(input.name.v)) ELSE NoMatch
  IN IF ~m1.found /\ TruthySku(input.sku)
     THEN MapGet(bySku, input.sku.v)
     ELSE m1

\* lines 88-97: the sku index first, then the name index
FindMatch(bySku, byNormName, input) ==
  LET m1 == IF TruthySku(input.sku) THEN MapGet(bySku, input.sku.v) ELSE NoMatch
  IN IF ~m1.found /\ TruthyName(input.name)
     THEN MapGet(byNormName, normalizeName(input.name.v))
     ELSE m1

\* the quantity test of line 83: !qty || qty <= 0
InvalidQuantity(qty) == ~TruthyNum(qty) \/ LeqZero(qty)

Unresolved(input, qty, reason) ==
  [sku |-> input.sku, name |-> input.name, quantity |-> qty, reason |-> reason]

\* a field that is undefined or null
Undefined == [k |-> "undef", v |-> 0]

\* Number(x ?? 0): 0 for undefined and null, the number itself otherwise,
\* NaN included
NumberOrZero(x) == IF x.k = "undef" THEN Fin(0) ELSE x

\* lines 104-116
LineItem(match, qty) ==
  LET unitPrice == NumberOrZero(match.unitPrice)
  IN [sku |-> match.sku,
      name |-> match.name,
      unit |-> IF match.unit # "" THEN match.unit ELSE "unit",
      unitPrice |-> round2(unitPrice),
      quantity |-> qty,
      totalPrice |-> round2(Times(unitPrice, qty)),
      currency |-> IF match.currency # ""
                   THEN [has |-> TRUE, v |-> match.currency] ELSE NoCurrency]

\* mutant: lineItems.unshift(...)
PushLineItemFront(lineItems, lineItem) == <<lineItem>> \o lineItems

\* lineItems.push({...}), line 108
PushLineItem(lineItems, lineItem) == Append(lineItems, lineItem)

\* mutant: break
AfterUnresolvedBreak(rest) == <<>>

\* what the loop does once an input turned out unresolved: continue
AfterUnresolved(rest) == rest

\* for (const input of items) { ... }, lines 81-117
RECURSIVE ResolveLoop(_, _, _, _)
ResolveLoop(bySku, byNormName, items, acc) ==
  IF items = <<>> THEN acc
  ELSE
    LET input == Head(items)
        qty == input.quantity
        match == FindMatch(bySku, byNormName, input)
    IN IF InvalidQuantity(qty)
       THEN ResolveLoop(bySku, byNormName, AfterUnresolved(Tail(items)),
              [acc EXCEPT !.unresolved =
                 Append(@, Unresolved(input, qty, "Invalid quantity"))])
       ELSE IF ~match.found
       THEN ResolveLoop(bySku, byNormName, AfterUnresolved(Tail(items)),
              [acc EXCEPT !.unresolved =
                 Append(@, Unresolved(input, qty,
                                      "Item not found in current snapshot"))])
       ELSE ResolveLoop(bySku, byNormName, Tail(items),
              [acc EXCEPT !.lineItems =
                 PushLineItem(@, LineItem(match.item, qty))])

\* mutant: the sum leaves out the first line item
RECURSIVE SumTotalsSkipFirst(_)
SumTotalsSkipFirst(lineItems) ==
  IF Len(lineItems) <= 1 THEN Fin(0)
  ELSE Plus(SumTotalsSkipFirst(SubSeq(lineItems, 1, Len(lineItems) - 1)),
            lineItems[Len(lineItems)].totalPrice)

\* lineItems.reduce((s, li) => s + li.totalPrice, 0), line 128
RECURSIVE SumTotals(_)
SumTotals(lineItems) ==
  IF lineItems = <<>> THEN Fin(0)
  ELSE Plus(SumTotals(SubSeq(lineItems, 1, Len(lineItems) - 1)),
            lineItems[Len(lineItems)].totalPrice)

MixedCurrencies ==
  <<"Mixed", "currencies", "detected", "across", "line", "items.", "Totals",
    "are", "computed", "without", "currency", "conversion.">>

\* the preview returned for an empty or absent list (line 60)
EmptyPreview ==
  [lineItems |-> <<>>, subtotal |-> Fin(0), currency |-> NoCurrency,
   warnings |-> <<>>, unresolved |-> <<>>, keys |-> {"lineItems", "subtotal"}]

\* new Set(lineItems.map(li => li.currency).filter(Boolean)), lines 119-121
Currencies(lineItems) ==
  {lineItems[i].currency.v :
     i \in {j \in 1..Len(lineItems) : lineItems[j].currency.has}}

\* mutant: the first currency met labels the preview, mixed or not
PreviewCurrencyFirst(lineItems) ==
  LET withCurrency == SelectSeq(lineItems, LAMBDA li : li.currency.has)
  IN IF withCurrency # <<>> THEN withCurrency[1].currency ELSE NoCurrency

\* lines 124 and 132: the currency of the preview, if it has one
PreviewCurrency(lineItems) ==
  IF Cardinality(Currencies(lineItems)) = 1
  THEN [has |-> TRUE, v |-> CHOOSE c \in Currencies(lineItems) : TRUE]
  ELSE NoCurrency

\* mutant: one warning for every line item with a currency
CurrencyWarningsPerItem(lineItems) ==
  IF Cardinality(Currencies(lineItems)) > 1
  THEN [i \in 1..Len(SelectSeq(lineItems, LAMBDA li : li.currency.has))
          |-> MixedCurrencies]
  ELSE <<>>

\* lines 122-126: the warnings of the preview
CurrencyWarnings(lineItems) ==
  IF Cardinality(Currencies(lineItems)) > 1
  THEN <<MixedCurrencies>> ELSE <<>>

\* mutant: warnings and unresolved are always part of the result
PreviewKeysAlways(currency, warnings, unresolved) ==
  {"lineItems", "subtotal", "warnings", "unresolved"}
    \cup (IF currency.has THEN {"currency"} ELSE {})

\* lines 130-133: the fields of the result object
PreviewKeys(currency, warnings, unresolved) ==
  {"lineItems", "subtotal"}
    \cup (IF currency.has THEN {"currency"} ELSE {})
    \cup (IF Len(warnings) > 0 THEN {"warnings"} ELSE {})
    \cup (IF Len(unresolved) > 0 THEN {"unresolved"} ELSE {})

\* lines 69-135: resolve a non-empty list against the fetched snapshot;
\* keys are the fields present in the returned object
Resolve(snapshotItems, items) ==
  LET bySku == BuildBySku(EmptyMap, snapshotItems)
      byNormName == BuildByNormName(EmptyMap, snapshotItems)
      acc == ResolveLoop(bySku, byNormName, items,
                         [lineItems |-> <<>>, unresolved |-> <<>>])
      currency == PreviewCurrency(acc.lineItems)
      warnings == CurrencyWarnings(acc.lineItems)
  IN [lineItems |-> acc.lineItems,
      subtotal |-> round2(SumTotals(acc.lineItems)),
      currency |-> currency,
      warnings |-> warnings,
      unresolved |-> acc.unresolved,
      keys |-> PreviewKeys(currency, warnings, acc.unresolved)]

\* --------------------------------------------------------------- the store
VARIABLES
  snaps,        \* table pricingSnapshots: sequence of [current, items]
  pc,           \* per caller: "idle", or "flip" while a promotion is pending
  arg,          \* per caller: the snapshotId of the pending promotion
  ret,          \* what the store returned last to one of the callers
  lastFlip,     \* currentId of the callers' latest successful promotion, 0 if none
  demoted,      \* ids a caller's promotion turned from true to false
  req,          \* the quotation request in flight
  res,          \* the response to the last finished quotation request
  look,         \* what lookupPrice returned last
  pin,          \* the argument a normalizer or mapper function is called with
  pout,         \* what that function returned, once it has
  mail,         \* tables messages, customers and systemLogs, and create's calls
  run,          \* one run of the ai/process.message function and its message
  wrap,         \* one call of an AgentWrapper method
  batch         \* one run of the ai/process.batch function

storeVars == <<snaps, pc, arg, ret, lastFlip, demoted>>
quoteVars == <<req, res>>
aiVars == <<mail, run, wrap, batch>>
vars == <<snaps, pc, arg, ret, lastFlip, demoted, req, res, look, pin, pout,
          mail, run, wrap, batch>>

\* mutant: the latest snapshot, current or not
FirstCurrentLatest(db) == Len(db)

\* .withIndex("by_current", q => q.eq("current", true)).first(): the first
\* document in index order whose flag is set, 0 (null) if there is none
FirstCurrent(db) ==
  IF \E i \in 1..Len(db) : db[i].current
  THEN CHOOSE i \in 1..Len(db) :
         db[i].current /\ \A j \in 1..(i - 1) : ~db[j].current
  ELSE 0

\* mutant: the new snapshot is inserted as current
InsertSnapshotCurrent(db, items) ==
  Append(db, [current |-> TRUE, items |-> items])

\* ctx.db.insert("pricingSnapshots", {..., current: false, items})
InsertSnapshot(db, items) ==
  Append(db, [current |-> FALSE, items |-> items])

\* ctx.db.patch(id, {current: b}); the caller checks that the document exists
Patch(db, id, b) == [db EXCEPT ![id].current = b]

\* mutant: the writes made before the throw stay
RollbackKeeps(before, written) == written

\* what a mutation that threw leaves in the table: nothing of what it wrote
Rollback(before, written) == before

\* mutant: the previous current snapshot is left as it is
UnsetPreviousSkip(db, prev) == db

\* the first patch of flipCurrentSnapshot: unset the previous current, if any
UnsetPrevious(db, prev) == IF prev # 0 THEN Patch(db, prev, FALSE) ELSE db

\* mutant: the target is set first and the current snapshot is looked up and
\* unset afterwards
FlipTxnSetFirst(db, snapshotId) ==
  IF snapshotId \in 1..Len(db)
  THEN LET db1 == Patch(db, snapshotId, TRUE)
           prev == FirstCurrent(db1)
       IN [ok |-> TRUE, db |-> Patch(db1, prev, FALSE),
           previousCurrentId |-> prev, currentId |-> snapshotId]
  ELSE [ok |-> FALSE, db |-> db, previousCurrentId |-> 0, currentId |-> 0]

\* flipCurrentSnapshot's handler run as one transaction on table db
FlipTxn(db, snapshotId) ==
  LET prev == FirstCurrent(db)
      db1 == UnsetPrevious(db, prev)
  IN IF snapshotId \in 1..Len(db1)
     THEN [ok |-> TRUE, db |-> Patch(db1, snapshotId, TRUE),
           previousCurrentId |-> prev, currentId |-> snapshotId]
     ELSE [ok |-> FALSE, db |-> Rollback(db, db1),
           previousCurrentId |-> 0, currentId |-> 0]

Return(c, op, ok, id, prev) ==
  [caller |-> c, op |-> op, ok |-> ok, id |-> id, prev |-> prev]

NoRet == Return(0, "none", TRUE, 0, 0)

\* ids whose flag a transaction turned from true to false
Demotions(before, after) ==
  {i \in 1..Len(before) : before[i].current /\ ~after[i].current}

\* createPricingSnapshot: insert with current = false, return the new id
createPricingSnapshot(c, items) ==
  /\ pc[c] = "idle"
  /\ Len(snaps) < MaxSnap
  /\ snaps' = InsertSnapshot(snaps, items)
  /\ ret' = Return(c, "create", TRUE, Len(snaps) + 1, 0)
  /\ UNCHANGED <<pc, arg, lastFlip, demoted, req, res, look, pin, pout, aiVars>>

\* a client sends flipCurrentSnapshot({snapshotId}); the mutation is pending
CallFlip(c, snapshotId) ==
  /\ pc[c] = "idle"
  /\ pc' = [pc EXCEPT ![c] = "flip"]
  /\ arg' = [arg EXCEPT ![c] = snapshotId]
  /\ UNCHANGED <<snaps, ret, lastFlip, demoted, req, res, look, pin, pout, aiVars>>

\* the store runs the pending flipCurrentSnapshot as one transaction
flipCurrentSnapshot(c) ==
  /\ pc[c] = "flip"
  /\ LET txn == FlipTxn(snaps, arg[c])
     IN /\ snaps' = txn.db
        /\ ret' = Return(c, "flip", txn.ok, txn.currentId,
                         txn.previousCurrentId)
        /\ lastFlip' = IF txn.ok THEN txn.currentId ELSE lastFlip
        /\ demoted' = demoted \cup Demotions(snaps, txn.db)
  /\ pc' = [pc EXCEPT ![c] = "idle"]
  /\ arg' = [arg EXCEPT ![c] = 0]
  /\ UNCHANGED <<req, res, look, pin, pout, aiVars>>

\* createPricingSnapshot and flipCurrentSnapshot called by a client whose
\* return values are not kept (the pricing refresh), each one transaction
RefreshCreate(items) ==
  /\ Len(snaps) < MaxSnap
  /\ snaps' = InsertSnapshot(snaps, items)
  /\ UNCHANGED <<pc, arg, ret, lastFlip, demoted, req, res, look, pin, pout, aiVars>>

RefreshFlip(snapshotId) ==
  /\ snaps' = FlipTxn(snaps, snapshotId).db
  /\ UNCHANGED <<pc, arg, ret, lastFlip, demoted, req, res, look, pin, pout, aiVars>>

\* getCurrentSnapshot: the snapshot flagged current, or null
getCurrentSnapshot(c) ==
  /\ pc[c] = "idle"
  /\ ret' = Return(c, "get", TRUE, FirstCurrent(snaps), 0)
  /\ UNCHANGED <<snaps, pc, arg, lastFlip, demoted, req, res, look, pin, pout, aiVars>>

\* Array.prototype.find: the first of the elements passing the test, or
\* undefined
First(hits) ==
  IF hits = <<>> THEN NoMatch ELSE [found |-> TRUE, item |-> hits[1]]

\* current.items.find(i => i.sku === args.sku), line 86
FindBySku(items, sku) == First(SelectSeq(items, LAMBDA i : i.sku = sku))

\* current.items.find(i => i.normalizedName === norm), line 90
FindByNormalizedName(items, norm) ==
  First(SelectSeq(items, LAMBDA i : i.normalizedName = norm))

\* the handler of lookupPrice, lines 78-93; found is FALSE for null
LookupHandler(db, sku, name) ==
  LET current == FirstCurrent(db)
      bySku == IF TruthySku(sku)
               THEN FindBySku(db[current].items, sku.v)
               ELSE NoMatch
      norm == ToLowerCase(Trim(name.v))
  IN IF current = 0 THEN NoMatch
     ELSE IF ~bySku.found /\ TruthyName(name)
     THEN FindByNormalizedName(db[current].items, norm)
     ELSE bySku

\* the { sku, name } arguments lookupPrice is called with
LookupArgs == {[sku |-> i.sku, name |-> i.name] : i \in InputItems}

Looked(sku, name, snap, match) ==
  [done |-> TRUE, sku |-> sku, name |-> name, snap |-> snap, match |-> match]

NoLook == [done |-> FALSE, sku |-> NoSku, name |-> NoName, snap |-> 0,
           match |-> NoMatch]

\* lookupPrice({ sku, name }): a query, it reads the store and returns
lookupPrice(a) ==
  /\ look' = Looked(a.sku, a.name, FirstCurrent(snaps),
                    LookupHandler(snaps, a.sku, a.name))
  /\ UNCHANGED <<storeVars, req, res, pin, pout, aiVars>>

\* ------------------------------------------- quotation calls and the route
NotConfigured ==
  <<"No", "current", "pricing", "snapshot", "configured.", "Please",
    "refresh", "pricing.">>

ItemsRequired == <<"'items'", "array", "is", "required">>

\* what convex.query rejects with when the store cannot be reached or answers
\* with a server error
TransportMessages ==
  { <<"fetch", "failed">>,
    <<"[CONVEX", "Q(pricing:getCurrentSnapshot)]", "Server", "Error">> }

\* request bodies that are not JSON
MalformedTexts == { <<"oops">>, <<"pricing", "snapshot">> }

\* the message of the SyntaxError of req.json(): depending on the engine it
\* names the offending token only, or also quotes the text
JsonErrorMessages(text) ==
  { <<"Unexpected", "token", "in", "JSON", "at", "position", "0">>,
    <<"Unexpected", "token,">> \o text \o <<"is", "not", "valid", "JSON">> }

\* String.prototype.includes on word sequences
Includes(msg, needle) ==
  \E i \in 1..(Len(msg) - Len(needle) + 1) :
    SubSeq(msg, i, i + Len(needle) - 1) = needle

\* line 22 of the route: msg.includes("pricing snapshot") ? 409 : 500
ErrorStatus(msg) == IF Includes(msg, <<"pricing", "snapshot">>) THEN 409 ELSE 500

\* the argument of a direct generateQuotationPreview call
CallArgs ==
  {[isArray |-> FALSE, list |-> <<>>]}
    \cup {[isArray |-> TRUE, list |-> l] : l \in ItemLists}

\* request bodies: not JSON, or JSON whose body?.items is missing (a null
\* body, no items key), not an array, or an array
Bodies ==
  {[shape |-> "malformed", text |-> t, list |-> <<>>] : t \in MalformedTexts}
    \cup {[shape |-> sh, text |-> <<>>, list |-> <<>>] :
            sh \in {"null", "noItems", "notArray"}}
    \cup {[shape |-> "array", text |-> <<>>, list |-> l] : l \in ItemLists}

NoPreview ==
  [lineItems |-> <<>>, subtotal |-> Fin(0), currency |-> NoCurrency,
   warnings |-> <<>>, unresolved |-> <<>>, keys |-> {}]

NoReq == [pc |-> "idle", via |-> "none", items |-> <<>>]

\* res.kind: "returned" / "threw" for a direct call, "response" for the route;
\* cause names the branch that ended the request
Result(kind, via, isArray, items, query, snap, status, msg, preview, cause) ==
  [kind |-> kind, via |-> via, isArray |-> isArray, items |-> items,
   query |-> query, snap |-> snap,
   reads |-> IF query = "none" THEN 0 ELSE 1,
   status |-> status, msg |-> msg, preview |-> preview, cause |-> cause]

NoRes == Result("none", "none", FALSE, <<>>, "none", 0, 0, <<>>, NoPreview, "none")

\* mutant: only the array test
ShortCircuitArrayOnly(a) == ~a.isArray

\* line 59: !Array.isArray(items) || items.length === 0
ShortCircuit(a) == ~a.isArray \/ Len(a.list) = 0

\* mutant: a missing snapshot is resolved against as an empty price list
PreviewOutcomeLenient(db, snapshot, items) ==
  [threw |-> FALSE, msg |-> <<>>,
   preview |-> Resolve(IF snapshot = 0 THEN <<>> ELSE db[snapshot].items, items)]

\* lines 65-135, once the query has returned snapshot id `snapshot` (0: null)
PreviewOutcome(db, snapshot, items) ==
  IF snapshot = 0
  THEN [threw |-> TRUE, msg |-> NotConfigured, preview |-> NoPreview]
  ELSE [threw |-> FALSE, msg |-> <<>>,
        preview |-> Resolve(db[snapshot].items, items)]

\* how an outcome of generateQuotationPreview reaches the caller: as it is
\* for a direct call, through lines 17-23 of the route for a request
Deliver(via, items, query, snap, o, cause) ==
  IF via = "call"
  THEN Result(IF o.threw THEN "threw" ELSE "returned", via, TRUE, items,
              query, snap, 0, o.msg, o.preview, cause)
  ELSE Result("response", via, TRUE, items, query, snap,
              IF o.threw THEN ErrorStatus(o.msg) ELSE 200,
              o.msg, o.preview, cause)

\* generateQuotationPreview(items) up to its await
CallPreview(a) ==
  /\ req.pc = "idle"
  /\ res = NoRes
  /\ IF ShortCircuit(a)
     THEN /\ res' = Result("returned", "call", a.isArray, a.list, "none", 0,
                           0, <<>>, EmptyPreview, "none")
          /\ req' = NoReq
     ELSE /\ req' = [pc |-> "fetch", via |-> "call", items |-> a.list]
          /\ res' = NoRes
  /\ UNCHANGED <<storeVars, look, pin, pout, aiVars>>

\* POST(req) up to the await inside generateQuotationPreview
CallPost(body, msg) ==
  /\ req.pc = "idle"
  /\ res = NoRes
  /\ msg \in JsonErrorMessages(body.text)
  /\ IF body.shape = "malformed"
     THEN /\ res' = Result("response", "post", FALSE, <<>>, "none", 0,
                           ErrorStatus(msg), msg, NoPreview, "parse")
          /\ req' = NoReq
     ELSE LET items == IF body.shape = "array" THEN body.list ELSE <<>>
          IN IF Len(items) = 0
             THEN /\ res' = Result("response", "post", body.shape = "array",
                                   items, "none", 0, 400, ItemsRequired,
                                   NoPreview, "validation")
                  /\ req' = NoReq
             ELSE /\ req' = [pc |-> "fetch", via |-> "post", items |-> items]
                  /\ res' = NoRes
  /\ UNCHANGED <<storeVars, look, pin, pout, aiVars>>

\* mutant: a resolver that finds no current snapshot promotes the latest one
QueryReturnsPromoting ==
  /\ req.pc = "fetch"
  /\ LET snapshot == FirstCurrent(snaps)
         o == PreviewOutcome(snaps, snapshot, req.items)
     IN /\ res' = Deliver(req.via, req.items, "ok", snapshot, o,
                          IF o.threw THEN "notConfigured" ELSE "none")
        /\ snaps' = IF snapshot = 0 /\ snaps # <<>>
                    THEN Patch(snaps, Len(snaps), TRUE) ELSE snaps
  /\ req' = NoReq
  /\ UNCHANGED <<pc, arg, ret, lastFlip, demoted, look, pin, pout, aiVars>>

\* convex.query(api.pricing.getCurrentSnapshot) answers; the rest of
\* generateQuotationPreview and of the route run to the end
QueryReturns ==
  /\ req.pc = "fetch"
  /\ LET snapshot == FirstCurrent(snaps)
         o == PreviewOutcome(snaps, snapshot, req.items)
     IN res' = Deliver(req.via, req.items, "ok", snapshot, o,
                       IF o.threw THEN "notConfigured" ELSE "none")
  /\ req' = NoReq
  /\ UNCHANGED <<storeVars, look, pin, pout, aiVars>>

\* convex.query rejects: the store is unreachable or answers with an error
QueryFails(msg) ==
  /\ req.pc = "fetch"
  /\ res' = Deliver(req.via, req.items, "failed", 0,
                    [threw |-> TRUE, msg |-> msg, preview |-> NoPreview],
                    "transport")
  /\ req' = NoReq
  /\ UNCHANGED <<storeVars, look, pin, pout, aiVars>>

\* the client has read the result of its call and may issue the next one
TakeResult ==
  /\ res # NoRes
  /\ res' = NoRes
  /\ UNCHANGED <<req, storeVars, look, pin, pout, aiVars>>

\* ------------------------------------- normalizer and header-row functions
\* "Item No."
ItemNo ==
  <<"I", "t", "e", "m", " ", "N", "o", ".">>

\* "Item Description"
ItemDescription ==
  <<"I", "t", "e", "m", " ", "D", "e", "s", "c", "r", "i", "p", "t", "i",
    "o", "n">>

\* "Base Price List"
BasePriceList ==
  <<"B", "a", "s", "e", " ", "P", "r", "i", "c", "e", " ", "L", "i", "s",
    "t">>

\* "Primary Currency - Base Price (currency)"
BasePriceCurrency ==
  <<"P", "r", "i", "m", "a", "r", "y", " ", "C", "u", "r", "r", "e", "n",
    "c", "y", " ", "-", " ", "B", "a", "s", "e", " ", "P", "r", "i", "c",
    "e", " ", "(", "c", "u", "r", "r", "e", "n", "c", "y", ")">>

\* "Primary Currency - Base Price"
BasePrice ==
  <<"P", "r", "i", "m", "a", "r", "y", " ", "C", "u", "r", "r", "e", "n",
    "c", "y", " ", "-", " ", "B", "a", "s", "e", " ", "P", "r", "i", "c",
    "e">>

\* the labels of lines 14-18, in the order of the find calls
Labels == <<ItemNo, ItemDescription, BasePriceList, BasePriceCurrency, BasePrice>>

\* a cell of the header row; undefined where the row has a hole
Cell(str) == [has |-> TRUE, v |-> str]
NoCell == [has |-> FALSE, v |-> <<>>]

\* mutant: h.toLowerCase().startsWith(target.toLowerCase())
HeaderMatchesPrefix(h, target) ==
  /\ h.has
  /\ Len(h.v) >= Len(target)
  /\ SubSeq(ToLowerCase(h.v), 1, Len(target)) = ToLowerCase(target)

\* h?.toLowerCase().trim() === target.toLowerCase(), line 11
HeaderMatches(h, target) ==
  h.has /\ Trim(ToLowerCase(h.v)) = ToLowerCase(target)

\* headers.findIndex(...): the 0-based position of the first match, or -1
FindIndex(headers, target) ==
  IF \E i \in 1..Len(headers) : HeaderMatches(headers[i], target)
  THEN (CHOOSE i \in 1..Len(headers) :
          /\ HeaderMatches(headers[i], target)
          /\ \A j \in 1..(i - 1) : ~HeaderMatches(headers[j], target)) - 1
  ELSE -1

\* mapHeadersToIndices(headers), lines 9-20
mapHeadersToIndices(headers) ==
  [skuIdx |-> FindIndex(headers, ItemNo),
   nameIdx |-> FindIndex(headers, ItemDescription),
   basePriceListIdx |-> FindIndex(headers, BasePriceList),
   currencyIdx |-> FindIndex(headers, BasePriceCurrency),
   unitPriceIdx |-> FindIndex(headers, BasePrice)]

\* /(kg|kgs|\(kgs\)|kilogram)/.test(n), line 11 of the normalizer
WeightMarker(n) ==
  \/ Includes(n, <<"k", "g">>)
  \/ Includes(n, <<"k", "g", "s">>)
  \/ Includes(n, <<"(", "k", "g", "s", ")">>)
  \/ Includes(n, <<"k", "i", "l", "o", "g", "r", "a", "m">>)

\* what a call gives back: a value, or the error it threw
Returned(y) == [done |-> TRUE, threw |-> FALSE, y |-> y]
Threw(e) == [done |-> TRUE, threw |-> TRUE, y |-> e]

\* inferUnitFromName(name), lines 9-13: name.toLowerCase() on an absent
\* name is a TypeError
inferUnitFromName(name) ==
  IF ~name.has THEN Threw("TypeError")
  ELSE IF WeightMarker(ToLowerCase(name.v)) THEN Returned("kg")
  ELSE Returned("unit")

\* name || "", line 2 of the normalizer
OrEmpty(name) == IF name.has THEN name.v ELSE <<>>

\* all strings of at most n characters of an alphabet
RECURSIVE Strings(_, _)
Strings(alphabet, n) ==
  IF n = 0 THEN {<<>>}
  ELSE LET shorter == Strings(alphabet, n - 1)
       IN shorter \cup {Append(str, ch) : str \in {x \in shorter : Len(x) = n - 1},
                                          ch \in alphabet}

\* the names handed to normalizeName
NameInputs ==
  {NoName} \cup {Name(str) : str \in Strings({"a", "B", "1", "!", " "}, MaxLen)}

\* the names handed to inferUnitFromName
UnitNameInputs ==
  {NoName}
    \cup {Name(str) : str \in Strings({"k", "G", "s", "(", ")"}, MaxLen)}
    \cup {Name(<<"K", "i", "l", "o", "g", "r", "a", "m">>),
          Name(<<"k", "i", "l", "o">>),
          Name(<<"1", "0", " ", "(", "K", "G", "S", ")">>),
          Name(<<"k", " ", "g">>)}

\* the cells a header row is made of: each label as it is, in lower case
\* and padded, a renamed header, an empty cell and a hole
HeaderCells ==
  {Cell(Labels[i]) : i \in 1..Len(Labels)}
    \cup {Cell(ToLowerCase(Labels[i])) : i \in 1..Len(Labels)}
    \cup {Cell(<<" ">> \o Labels[i] \o <<" ">>) : i \in 1..Len(Labels)}
    \cup {Cell(<<"S", "K", "U">>), Cell(<<>>), NoCell}

\* header rows of at most n cells
RECURSIVE RowsUpTo(_)
RowsUpTo(n) ==
  IF n = 0 THEN {<<>>}
  ELSE LET shorter == RowsUpTo(n - 1)
       IN shorter \cup {Append(row, cell) : row \in {x \in shorter : Len(x) = n - 1},
                                            cell \in HeaderCells}

\* the numbers handed to round2: thousandths around zero, NaN and Infinity
RoundInputs ==
  {Fin(v) : v \in (0 - MaxMills)..MaxMills} \cup {NaN, PosInf, NegInf}

\* the function called and its argument: a number, a name or a header row
Arg(fn, n, name, headers) ==
  [fn |-> fn, n |-> n, name |-> name, headers |-> headers]
NoPin == Arg("none", Fin(0), NoName, <<>>)
NoPout == [done |-> FALSE, threw |-> FALSE, y |-> 0]

\* the calls of the pure functions
PureInputs ==
  {Arg("round2", n, NoName, <<>>) : n \in RoundInputs}
    \cup {Arg("normalizeName", Fin(0), name, <<>>) : name \in NameInputs}
    \cup {Arg("inferUnitFromName", Fin(0), name, <<>>) :
            name \in UnitNameInputs}
    \cup {Arg("mapHeadersToIndices", Fin(0), NoName, row) :
            row \in RowsUpTo(MaxCols)}

\* round2(n)
CallRound2 ==
  /\ pin.fn = "round2" /\ ~pout.done
  /\ pout' = Returned(round2(pin.n))
  /\ UNCHANGED <<storeVars, quoteVars, look, pin, aiVars>>

\* normalizeName(name), and normalizeName of what it returned: a name is
\* normalized when it is captured and again when it is looked up
CallNormalizeName ==
  /\ pin.fn = "normalizeName" /\ ~pout.done
  /\ LET once == normalizeName(OrEmpty(pin.name))
     IN pout' = Returned([once |-> once, twice |-> normalizeName(once)])
  /\ UNCHANGED <<storeVars, quoteVars, look, pin, aiVars>>

\* inferUnitFromName(name)
CallInferUnitFromName ==
  /\ pin.fn = "inferUnitFromName" /\ ~pout.done
  /\ pout' = inferUnitFromName(pin.name)
  /\ UNCHANGED <<storeVars, quoteVars, look, pin, aiVars>>

\* mapHeadersToIndices(headers)
CallMapHeadersToIndices ==
  /\ pin.fn = "mapHeadersToIndices" /\ ~pout.done
  /\ pout' = Returned(mapHeadersToIndices(pin.headers))
  /\ UNCHANGED <<storeVars, quoteVars, look, pin, aiVars>>

\* ------------------------------------------------ messages and customers
MaxCalls == 4     \* create calls in one behaviour

MessageIds == {"m1", "m2"}
\* an absent customerEmail or customerPhone is falsy, as is "": both are ""
Emails == {"", "a@x"}
Phones == {"", "+1"}
Statuses == {"received", "processing", "parsed", "completed", "failed"}

\* the arguments of messages.create
CreateArgs ==
  [messageId : MessageIds, customerEmail : Emails, customerPhone : Phones,
   status : {"received", "failed"}]

NoMail ==
  [messages |-> <<>>, customers |-> <<>>, logs |-> 0, calls |-> 0,
   args |-> [messageId |-> "", customerEmail |-> "", customerPhone |-> "",
             status |-> ""],
   ret |-> 0]

\* .first() of an index query: the _id (position) of the oldest hit, 0 for null
FirstId(hits) == IF hits = {} THEN 0 ELSE CHOOSE i \in hits : \A j \in hits : i <= j

\* .withIndex("by_message_id", q => q.eq("messageId", id)).first()
ByMessageId(messages, id) ==
  FirstId({i \in 1..Len(messages) : messages[i].messageId = id})

ByEmail(customers, email) ==
  FirstId({i \in 1..Len(customers) : customers[i].email = email})

ByPhone(customers, phone) ==
  FirstId({i \in 1..Len(customers) : customers[i].phone = phone})

\* upsertCustomer: the customer found by email, else by phone, gets one more
\* message; when none is found a customer with messageCount 1 is inserted
upsertCustomer(customers, messageData) ==
  LET customer ==
        IF messageData.customerEmail # ""
        THEN ByEmail(customers, messageData.customerEmail)
        ELSE IF messageData.customerPhone # ""
             THEN ByPhone(customers, messageData.customerPhone)
             ELSE 0
  IN IF customer # 0
     THEN [customers EXCEPT ![customer].messageCount = @ + 1]
     ELSE Append(customers, [email |-> messageData.customerEmail,
                             phone |-> messageData.customerPhone,
                             messageCount |-> 1])

\* mutant: the message is inserted without looking for a stored one
CreateTxnNoCheck(m, args) ==
  [m EXCEPT !.messages = Append(@, args),
            !.logs = @ + 1,
            !.customers = upsertCustomer(@, args),
            !.ret = Len(m.messages) + 1]

\* the handler of messages.create, one transaction
CreateTxn(m, args) ==
  LET existing == ByMessageId(m.messages, args.messageId)
  IN IF existing # 0
     THEN [m EXCEPT !.ret = existing]
     ELSE [m EXCEPT !.messages = Append(@, args),
                    !.logs = @ + 1,
                    !.customers = upsertCustomer(@, args),
                    !.ret = Len(m.messages) + 1]

create(args) ==
  /\ mail.calls < MaxCalls
  /\ mail' = [CreateTxn(mail, args) EXCEPT !.calls = @ + 1, !.args = args]
  /\ UNCHANGED <<storeVars, quoteVars, look, pin, pout, run, wrap, batch>>

\* messages.updateStatus: ctx.db.patch(args.messageId, {status})
updateStatus(messageId, status) ==
  /\ messageId \in 1..Len(mail.messages)
  /\ mail' = [mail EXCEPT !.messages[messageId].status = status]
  /\ UNCHANGED <<storeVars, quoteVars, look, pin, pout, run, wrap, batch>>

\* ------------------------------------------- the ai/process.message function
retries == 3      \* retries: 3 of processMessage

\* messages of the errors analyzeMessageWithOpenAI throws
OpenAIErrors ==
  { <<"401", "Incorrect", "API", "key", "provided">>,
    <<"Invalid", "API", "key">>,
    <<"429", "Rate", "limit", "reached">>,
    <<"400", "maximum", "context", "length", "exceeded">>,
    <<"Connection", "error.">>,
    <<"No", "response", "from", "OpenAI">> }

\* String.prototype.toLowerCase, one word
LowerWord(w) ==
  CASE w = "Incorrect" -> "incorrect"
    [] w = "Invalid" -> "invalid"
    [] w = "API" -> "api"
    [] w = "Rate" -> "rate"
    [] w = "Connection" -> "connection"
    [] w = "No" -> "no"
    [] w = "OpenAI" -> "openai"
    [] w = "Operation" -> "operation"
    [] w = "Simulated" -> "simulated"
    [] w = "Request" -> "request"
    [] w = "ECONNRESET" -> "econnreset"
    [] OTHER -> w

WordsToLowerCase(msg) == [i \in 1..Len(msg) |-> LowerWord(msg[i])]

\* the branch handleOpenAIError takes for an error message
OpenAIErrorKind(errorMessage) ==
  LET lower == WordsToLowerCase(errorMessage)
  IN IF \/ Includes(lower, <<"rate", "limit">>)
        \/ Includes(errorMessage, <<"429">>)
        \/ Includes(lower, <<"quota", "exceeded">>)
     THEN "rate limit"
     ELSE IF \/ Includes(errorMessage, <<"401">>)
             \/ Includes(lower, <<"unauthorized">>)
             \/ Includes(lower, <<"invalid", "api", "key">>)
     THEN "authentication"
     ELSE IF \/ Includes(errorMessage, <<"400">>)
             \/ Includes(lower, <<"context", "length">>)
             \/ Includes(lower, <<"maximum", "context">>)
     THEN "context"
     ELSE IF \/ Includes(lower, <<"timeout">>)
             \/ Includes(lower, <<"network">>)
             \/ Includes(lower, <<"connection">>)
     THEN "network"
     ELSE "other"

NoRun ==
  [pc |-> "idle", attempt |-> 1, status |-> "received", began |-> FALSE,
   calls |-> 0, auth |-> 0]

\* a step that throws is run again until it has failed retries + 1 times;
\* then the function has failed and onFailure runs
StepThrows(r) ==
  IF r.attempt <= retries
  THEN [r EXCEPT !.attempt = @ + 1]
  ELSE [r EXCEPT !.pc = "onFailure", !.attempt = 1]

StepReturns(r, next) == [r EXCEPT !.pc = next, !.attempt = 1]

\* handleOpenAIError: the error is logged; an authentication or context error
\* marks the message failed; every branch throws an Error.  With the store
\* unreachable the first mutation throws instead.
handleOpenAIError(r, errorMessage, up) ==
  LET kind == OpenAIErrorKind(errorMessage)
      marked == IF up /\ kind \in {"authentication", "context"}
                THEN [r EXCEPT !.status = "failed"] ELSE r
      noted == IF up /\ kind = "authentication" /\ r.auth = 0
               THEN [marked EXCEPT !.auth = r.calls] ELSE marked
  IN StepThrows(noted)

\* an ai/process.message event arrives for a message in some status
SendEvent(status) ==
  /\ run.pc = "idle"
  /\ run' = [run EXCEPT !.pc = "get-message", !.status = status]
  /\ UNCHANGED <<storeVars, quoteVars, look, pin, pout, mail, wrap, batch>>

\* step get-message, and the status test that follows it
getMessage(up) ==
  /\ run.pc = "get-message"
  /\ run' = IF ~up THEN StepThrows(run)
            ELSE IF run.status \notin {"received", "processing"}
                 THEN StepReturns(run, "log-skip")
                 ELSE StepReturns(run, "update-status-processing")
  /\ UNCHANGED <<storeVars, quoteVars, look, pin, pout, mail, wrap, batch>>

\* step log-skip, and the return after it
logSkip(up) ==
  /\ run.pc = "log-skip"
  /\ run' = IF up THEN StepReturns(run, "returned") ELSE StepThrows(run)
  /\ UNCHANGED <<storeVars, quoteVars, look, pin, pout, mail, wrap, batch>>

updateStatusProcessing(up) ==
  /\ run.pc = "update-status-processing"
  /\ run' = IF up
            THEN [StepReturns(run, "log-processing-start")
                    EXCEPT !.status = "processing", !.began = TRUE]
            ELSE StepThrows(run)
  /\ UNCHANGED <<storeVars, quoteVars, look, pin, pout, mail, wrap, batch>>

logProcessingStart(up) ==
  /\ run.pc = "log-processing-start"
  /\ run' = IF up THEN StepReturns(run, "process-text-with-direct-openai")
            ELSE StepThrows(run)
  /\ UNCHANGED <<storeVars, quoteVars, look, pin, pout, mail, wrap, batch>>

\* step process-text-with-direct-openai: OpenAI answers and the message is
\* set to parsed
processTextReturns ==
  /\ run.pc = "process-text-with-direct-openai"
  /\ run' = [StepReturns(run, "log-processing-completion")
               EXCEPT !.calls = @ + 1, !.status = "parsed"]
  /\ UNCHANGED <<storeVars, quoteVars, look, pin, pout, mail, wrap, batch>>

\* step process-text-with-direct-openai: the OpenAI call throws, or the store
\* does when the message is to be set to parsed; handleOpenAIError follows
processTextThrows(errorMessage, up) ==
  /\ run.pc = "process-text-with-direct-openai"
  /\ run' = handleOpenAIError([run EXCEPT !.calls = @ + 1], errorMessage, up)
  /\ UNCHANGED <<storeVars, quoteVars, look, pin, pout, mail, wrap, batch>>

\* step log-processing-completion, and the return after it
logProcessingCompletion(up) ==
  /\ run.pc = "log-processing-completion"
  /\ run' = IF up THEN StepReturns(run, "returned") ELSE StepThrows(run)
  /\ UNCHANGED <<storeVars, quoteVars, look, pin, pout, mail, wrap, batch>>

\* onFailure: the message is set to failed; an error of the store is caught
\* and logged to the console
onFailure(up) ==
  /\ run.pc = "onFailure"
  /\ run' = [run EXCEPT !.pc = "failed",
                        !.status = IF up THEN "failed" ELSE @]
  /\ UNCHANGED <<storeVars, quoteVars, look, pin, pout, mail, wrap, batch>>

\* ------------------------------------------------------------ AgentWrapper
retryAttempts == 3    \* config.processing.retryAttempts, AI_RETRY_ATTEMPTS unset

\* messages of the errors an agent execution ends with; executeWithTimeout
\* rejects with "Operation timed out"
AgentErrors ==
  { <<"Simulated", "OpenAI", "API", "error">>,
    <<"Operation", "timed", "out">>,
    <<"429", "Rate", "limit", "reached">>,
    <<"Connection", "error.">>,
    <<"validation", "failed">>,
    <<"No", "response">> }

AIProcessingError(type, retryable, retryAfter) ==
  [type |-> type, retryable |-> retryable, retryAfter |-> retryAfter]

\* categorizeError; a retryAfter that is not passed is undefined, falsy as 0 is
categorizeError(errorMessage) ==
  LET message == WordsToLowerCase(errorMessage)
  IN IF Includes(message, <<"rate", "limit">>) \/ Includes(message, <<"429">>)
     THEN AIProcessingError("RATE_LIMIT", TRUE, 60000)
     ELSE IF \/ Includes(message, <<"api">>) \/ Includes(message, <<"400">>)
             \/ Includes(message, <<"401">>) \/ Includes(message, <<"403">>)
     THEN AIProcessingError("API_ERROR", FALSE, 0)
     ELSE IF \/ Includes(message, <<"timeout">>)
             \/ Includes(message, <<"timed", "out">>)
     THEN AIProcessingError("TIMEOUT", TRUE, 5000)
     ELSE IF \/ Includes(message, <<"network">>)
             \/ Includes(message, <<"connection">>)
             \/ Includes(message, <<"econnreset">>)
     THEN AIProcessingError("NETWORK_ERROR", TRUE, 10000)
     ELSE IF Includes(message, <<"validation">>) \/ Includes(message, <<"invalid">>)
     THEN AIProcessingError("VALIDATION_ERROR", FALSE, 0)
     ELSE AIProcessingError("UNKNOWN", TRUE, 15000)

\* Math.pow(2, n)
RECURSIVE Pow2(_)
Pow2(n) == IF n = 0 THEN 1 ELSE 2 * Pow2(n - 1)

\* aiError.retryAfter || Math.pow(2, attempt) * 1000
RetryDelay(aiError, attempt) ==
  IF aiError.retryAfter # 0 THEN aiError.retryAfter ELSE Pow2(attempt) * 1000

NoWrap ==
  [pc |-> "idle", fn |-> "", attempt |-> 1, waits |-> <<>>, error |-> ""]

\* processMessage or processExcelData is called: the loop starts at attempt 1
CallWrapper(fn) ==
  /\ wrap.pc = "idle"
  /\ wrap' = [wrap EXCEPT !.pc = "attempt", !.fn = fn]
  /\ UNCHANGED <<storeVars, quoteVars, look, pin, pout, mail, run, batch>>

\* one pass of the loop whose agent execution returns
AttemptReturns ==
  /\ wrap.pc = "attempt"
  /\ wrap' = [wrap EXCEPT !.pc = "returned"]
  /\ UNCHANGED <<storeVars, quoteVars, look, pin, pout, mail, run, batch>>

\* one pass of the loop whose agent execution throws: the catch block
AttemptThrows(errorMessage) ==
  /\ wrap.pc = "attempt"
  /\ LET aiError == categorizeError(errorMessage)
     IN wrap' = IF ~aiError.retryable \/ wrap.attempt = retryAttempts
                THEN [wrap EXCEPT !.pc = "threw", !.error = aiError.type]
                ELSE [wrap EXCEPT
                        !.waits = Append(@, RetryDelay(aiError, wrap.attempt)),
                        !.attempt = @ + 1,
                        !.error = aiError.type]
  /\ UNCHANGED <<storeVars, quoteVars, look, pin, pout, mail, run, batch>>

\* --------------------------------------------- the ai/process.batch function
MaxIds == 3       \* message ids of one batch event

batchRetries == 2 \* retries: 2 of processBatch

\* event.data.messageIds, each id named by its position
IdLists == {[i \in 1..n |-> i] : n \in 1..MaxIds}

\* event.data.batchSize: absent, or a number
BatchSizes ==
  {[has |-> FALSE, v |-> 0]} \cup {[has |-> TRUE, v |-> n] : n \in -1..MaxIds}

\* const { batchSize = 5 } = event.data
BatchSizeOrDefault(b) == IF b.has THEN b.v ELSE 5

\* Array.prototype.slice(start, end): a negative index counts from the end,
\* both are clamped to the array
Slice(array, start, end) ==
  LET len == Len(array)
      Clamp(k) == IF k < 0 THEN (IF len + k > 0 THEN len + k ELSE 0)
                  ELSE (IF k < len THEN k ELSE len)
      from == Clamp(start)
      to == Clamp(end)
  IN SubSeq(array, from + 1, to)

NoBatch ==
  [pc |-> "idle", attempt |-> 1, messageIds |-> <<>>, batchSize |-> 0,
   i |-> 0, batches |-> <<>>, results |-> <<>>]

\* an ai/process.batch event with a non-empty messageIds array arrives
processBatch(messageIds, batchSize) ==
  /\ batch.pc = "idle"
  /\ batch' = [batch EXCEPT !.pc = "log-batch-start",
                            !.messageIds = messageIds,
                            !.batchSize = BatchSizeOrDefault(batchSize)]
  /\ UNCHANGED <<storeVars, quoteVars, look, pin, pout, mail, run, wrap>>

\* step log-batch-start: retried when the store throws, and the function
\* fails after batchRetries + 1 attempts
logBatchStart(up) ==
  /\ batch.pc = "log-batch-start"
  /\ batch' = IF up THEN [batch EXCEPT !.pc = "split", !.attempt = 1]
              ELSE IF batch.attempt <= batchRetries
                   THEN [batch EXCEPT !.attempt = @ + 1]
                   ELSE [batch EXCEPT !.pc = "failed"]
  /\ UNCHANGED <<storeVars, quoteVars, look, pin, pout, mail, run, wrap>>

\* i += batchSize
NextIndex(i, batchSize) == i + batchSize

\* one pass of for (let i = 0; i < messageIds.length; i += batchSize);
\* passes beyond MaxIds + 1 batches are not followed
SplitPass ==
  /\ batch.pc = "split"
  /\ batch.i < Len(batch.messageIds)
  /\ Len(batch.batches) <= MaxIds
  /\ batch' = [batch EXCEPT
       !.batches = Append(@, Slice(batch.messageIds, batch.i,
                                   batch.i + batch.batchSize)),
       !.i = NextIndex(batch.i, batch.batchSize)]
  /\ UNCHANGED <<storeVars, quoteVars, look, pin, pout, mail, run, wrap>>

\* the loop's test fails: the batches are sent next
SplitEnds ==
  /\ batch.pc = "split"
  /\ ~(batch.i < Len(batch.messageIds))
  /\ batch' = [batch EXCEPT !.pc = "send"]
  /\ UNCHANGED <<storeVars, quoteVars, look, pin, pout, mail, run, wrap>>

\* step process-batch-<batchIndex>: an event per message id; a send that
\* fails is caught and reported in the results
SendBatch ==
  /\ batch.pc = "send"
  /\ Len(batch.results) < Len(batch.batches)
  /\ LET ids == batch.batches[Len(batch.results) + 1]
     IN \E success \in [1..Len(ids) -> BOOLEAN] :
          batch' = [batch EXCEPT !.results =
                      Append(@, [ids |-> ids, success |-> success])]
  /\ UNCHANGED <<storeVars, quoteVars, look, pin, pout, mail, run, wrap>>

\* the last batch is sent: step log-batch-completion follows
SendEnds ==
  /\ batch.pc = "send"
  /\ Len(batch.results) = Len(batch.batches)
  /\ batch' = [batch EXCEPT !.pc = "log-batch-completion"]
  /\ UNCHANGED <<storeVars, quoteVars, look, pin, pout, mail, run, wrap>>

\* step log-batch-completion, and the return after it
logBatchCompletion(up) ==
  /\ batch.pc = "log-batch-completion"
  /\ batch' = IF up THEN [batch EXCEPT !.pc = "returned", !.attempt = 1]
              ELSE IF batch.attempt <= batchRetries
                   THEN [batch EXCEPT !.attempt = @ + 1]
                   ELSE [batch EXCEPT !.pc = "failed"]
  /\ UNCHANGED <<storeVars, quoteVars, look, pin, pout, mail, run, wrap>>

Init ==
  /\ snaps = <<>>
  /\ pc = [c \in Callers |-> "idle"]
  /\ arg = [c \in Callers |-> 0]
  /\ ret = NoRet
  /\ lastFlip = 0
  /\ demoted = {}
  /\ req = NoReq
  /\ res = NoRes
  /\ look = NoLook
  /\ pin = NoPin
  /\ pout = NoPout
  /\ mail = NoMail
  /\ run = NoRun
  /\ wrap = NoWrap
  /\ batch = NoBatch

\* the store under concurrent callers
Next ==
  \/ \E c \in Callers, items \in Catalogs : createPricingSnapshot(c, items)
  \/ \E c \in Callers, id \in SnapshotIds : CallFlip(c, id)
  \/ \E c \in Callers : flipCurrentSnapshot(c)
  \/ \E c \in Callers : getCurrentSnapshot(c)

Spec == Init /\ [][Next]_vars

\* quotation requests served while the price list is captured and promoted
QuoteNext ==
  \/ \E items \in Catalogs : RefreshCreate(items)
  \/ \E id \in SnapshotIds : RefreshFlip(id)
  \/ \E a \in CallArgs : CallPreview(a)
  \/ \E body \in Bodies : \E msg \in JsonErrorMessages(body.text) :
       CallPost(body, msg)
  \/ QueryReturns
  \/ \E msg \in TransportMessages : QueryFails(msg)
  \/ TakeResult

QuoteSpec == Init /\ [][QuoteNext]_vars

\* one-item quotation calls
SingleItemCalls == {[isArray |-> TRUE, list |-> <<i>>] : i \in InputItems}

\* price lookups and one-item quotation calls against the same store
LookupNext ==
  \/ \E items \in Catalogs : RefreshCreate(items)
  \/ \E id \in SnapshotIds : RefreshFlip(id)
  \/ \E a \in LookupArgs : lookupPrice(a)
  \/ \E a \in SingleItemCalls : CallPreview(a)
  \/ QueryReturns
  \/ TakeResult

LookupSpec == Init /\ [][LookupNext]_vars

\* a pure function is handed one of its inputs
PureInit ==
  /\ snaps = <<>>
  /\ pc = [c \in Callers |-> "idle"]
  /\ arg = [c \in Callers |-> 0]
  /\ ret = NoRet
  /\ lastFlip = 0
  /\ demoted = {}
  /\ req = NoReq
  /\ res = NoRes
  /\ look = NoLook
  /\ pin \in PureInputs
  /\ pout = NoPout
  /\ mail = NoMail
  /\ run = NoRun
  /\ wrap = NoWrap
  /\ batch = NoBatch

PureNext ==
  \/ CallRound2
  \/ CallNormalizeName
  \/ CallInferUnitFromName
  \/ CallMapHeadersToIndices

PureSpec == PureInit /\ [][PureNext]_vars

\* repeated syncs of a mailbox while messages are processed
MailNext ==
  \/ \E args \in CreateArgs : create(args)
  \/ \E id \in 1..Cardinality(MessageIds), status \in {"processing", "parsed"} :
       updateStatus(id, status)

MailSpec == Init /\ [][MailNext]_vars

\* one run of ai/process.message; the store is reachable or not at each step
AiNext ==
  \/ \E status \in Statuses : SendEvent(status)
  \/ \E up \in BOOLEAN : getMessage(up)
  \/ \E up \in BOOLEAN : logSkip(up)
  \/ \E up \in BOOLEAN : updateStatusProcessing(up)
  \/ \E up \in BOOLEAN : logProcessingStart(up)
  \/ processTextReturns
  \/ \E errorMessage \in OpenAIErrors \cup TransportMessages, up \in BOOLEAN :
       processTextThrows(errorMessage, up)
  \/ \E up \in BOOLEAN : logProcessingCompletion(up)
  \/ \E up \in BOOLEAN : onFailure(up)

AiSpec == Init /\ [][AiNext]_vars

\* Inngest runs every step it has scheduled, and onFailure once the function
\* has failed
AiFairSpec == Init /\ [][AiNext]_vars /\ WF_vars(AiNext)

\* one call of an AgentWrapper method
WrapNext ==
  \/ \E fn \in {"processMessage", "processExcelData"} : CallWrapper(fn)
  \/ AttemptReturns
  \/ \E errorMessage \in AgentErrors : AttemptThrows(errorMessage)

WrapSpec == Init /\ [][WrapNext]_vars

\* one run of ai/process.batch
BatchNext ==
  \/ \E messageIds \in IdLists, batchSize \in BatchSizes :
       processBatch(messageIds, batchSize)
  \/ \E up \in BOOLEAN : logBatchStart(up)
  \/ SplitPass
  \/ SplitEnds
  \/ SendBatch
  \/ SendEnds
  \/ \E up \in BOOLEAN : logBatchCompletion(up)

BatchSpec == Init /\ [][BatchNext]_vars

\* ================================================================= claims

CurrentIds == {i \in 1..Len(snaps) : snaps[i].current}

\* C1: in every reachable state at most one pricing snapshot has
\* current = true, whatever the order of the create and flip calls of the
\* concurrent callers.
C1_AtMostOneCurrent == Cardinality(CurrentIds) <= 1

\* C1 witness: a promotion has displaced an earlier current snapshot
C1_Witness ==
  /\ Len(snaps) >= 2
  /\ demoted # {}
  /\ Cardinality(CurrentIds) = 1
  /\ ret.op = "flip" /\ ret.ok /\ ret.prev # 0 /\ ret.prev # ret.id

\* C2: every getCurrentSnapshot returns the target of the most recent
\* successful promotion, and null exactly when no promotion has succeeded
\* yet (lastFlip = 0), also while another caller's promotion is pending.
C2_GetReturnsLastPromoted ==
  [][\A c \in Callers : getCurrentSnapshot(c) => ret'.id = lastFlip]_vars

\* C2 witness: a reader got the last promoted snapshot while a promotion of
\* another caller is pending and an earlier current snapshot was displaced
C2_Witness ==
  /\ ret.op = "get" /\ ret.id # 0 /\ ret.id = lastFlip
  /\ \E d \in Callers : d # ret.caller /\ pc[d] = "flip"
  /\ demoted # {}

\* C3: a flipCurrentSnapshot whose id names no snapshot ends in an error and
\* leaves the table as it was; the snapshot that was current stays current.
C3_FailedFlipChangesNothing ==
  [][\A c \in Callers :
       (flipCurrentSnapshot(c) /\ arg[c] \notin 1..Len(snaps))
         => (/\ ~ret'.ok
             /\ snaps' = snaps
             /\ FirstCurrent(snaps') = FirstCurrent(snaps))]_vars

\* C3 witness: the last call was a promotion that failed, and the snapshot
\* promoted before it is still current
C3_Witness ==
  /\ ret.op = "flip" /\ ~ret.ok
  /\ lastFlip # 0
  /\ FirstCurrent(snaps) = lastFlip

\* C4 as claimed: a snapshot whose flag has gone from true to false is never
\* current again.
C4_DemotedIsTerminal == \A i \in demoted : ~snaps[i].current

\* C4 as amended: a snapshot is created with current = false, and the flag
\* of an existing snapshot goes from false to true only in a successful
\* flipCurrentSnapshot that names this snapshot; demotion is not terminal.
C4_PromotedOnlyByItsOwnFlip ==
  [][\A i \in 1..Len(snaps') :
       /\ i > Len(snaps) => ~snaps'[i].current
       /\ (i <= Len(snaps) /\ ~snaps[i].current /\ snaps'[i].current)
            => \E c \in Callers :
                 /\ pc[c] = "flip" /\ arg[c] = i
                 /\ ret' = Return(c, "flip", TRUE, i, FirstCurrent(snaps))]_vars

\* C4 witness: a demoted snapshot is current again
C4_Witness == \E i \in demoted : snaps[i].current

\* a preview has been delivered, priced from snapshot res.snap
Delivered ==
  /\ res.kind \in {"returned", "response"}
  /\ res.query = "ok"
  /\ res.snap # 0
  /\ res.kind = "response" => res.status = 200

SnapItems == snaps[res.snap].items

\* C5: a call with a non-empty list whose read finds no current snapshot
\* fails with the PricingNotConfigured error and delivers no preview,
\* whatever the items are.
C5_NotConfigured ==
  (res.kind # "none" /\ res.isArray /\ res.items # <<>>
     /\ res.query = "ok" /\ res.snap = 0)
    => /\ res.kind \in {"threw", "response"}
       /\ res.msg = NotConfigured
       /\ res.preview.keys = {}
       /\ res.preview.unresolved = <<>>
       /\ res.kind = "response" => res.status = 409

FinitePositive(q) == q.k = "fin" /\ q.v > 0

\* C5 witness: the call failed for a list of invalid quantities only
C5_Witness ==
  /\ res.kind = "threw" /\ res.msg = NotConfigured
  /\ res.query = "ok" /\ res.snap = 0
  /\ Len(res.items) >= 1
  /\ \A j \in 1..Len(res.items) : ~FinitePositive(res.items[j].quantity)

\* C6: a direct call with an empty or absent list returns
\* {lineItems: [], subtotal: 0} and has not queried the store.
C6_EmptyShortCircuit ==
  (res.kind # "none" /\ res.via = "call" /\ (~res.isArray \/ res.items = <<>>))
    => /\ res.kind = "returned"
       /\ res.preview.lineItems = <<>>
       /\ res.preview.subtotal = Fin(0)
       /\ res.preview.keys = {"lineItems", "subtotal"}
       /\ res.reads = 0

\* C6 witness: the empty list was answered while no snapshot is current
C6_Witness ==
  /\ res.kind = "returned" /\ res.via = "call"
  /\ res.isArray /\ res.items = <<>>
  /\ res.reads = 0
  /\ Len(snaps) > 0 /\ FirstCurrent(snaps) = 0

\* C7 as claimed: the status of a response is a function of how the request
\* ended: 400 for missing / non-array / empty items, 409 exactly for a
\* missing current snapshot, 500 for every other failure, 200 otherwise.
C7_StatusByOutcome ==
  res.kind = "response"
    => res.status = CASE res.cause = "validation" -> 400
                      [] res.cause = "notConfigured" -> 409
                      [] res.cause = "parse" -> 500
                      [] res.cause = "transport" -> 500
                      [] OTHER -> 200

\* the quantity test as the loop applies it: truthy and greater than 0
PassesQuantityCheck(q) == (q.k = "fin" /\ q.v > 0) \/ (q.k = "inf" /\ q.v > 0)

\* position of the last item of S with the given non-empty key, 0 if none
SkuIndexEntry(S, k) ==
  IF k # "" /\ \E i \in 1..Len(S) : S[i].sku = k
  THEN CHOOSE i \in 1..Len(S) :
         S[i].sku = k /\ \A j \in (i + 1)..Len(S) : S[j].sku # k
  ELSE 0

NameIndexEntry(S, n) ==
  IF n # <<>> /\ \E i \in 1..Len(S) : S[i].normalizedName = n
  THEN CHOOSE i \in 1..Len(S) :
         S[i].normalizedName = n
           /\ \A j \in (i + 1)..Len(S) : S[j].normalizedName # n
  ELSE 0

\* the catalog position the match order of section 4.3 gives an input
ClaimedMatch(S, input) ==
  IF input.sku.has /\ SkuIndexEntry(S, input.sku.v) # 0
  THEN SkuIndexEntry(S, input.sku.v)
  ELSE IF input.name.has
       THEN NameIndexEntry(S, normalizeName(input.name.v))
       ELSE 0

Resolvable(S, input) ==
  PassesQuantityCheck(input.quantity) /\ ClaimedMatch(S, input) # 0

\* C8: every input of a delivered preview is accounted for exactly once,
\* |lineItems| + |unresolved| = |items|, and every input that can be resolved
\* has its line item whatever precedes it in the list.
C8_EveryInputAccounted ==
  Delivered
    => /\ Len(res.preview.lineItems) + Len(res.preview.unresolved)
            = Len(res.items)
       /\ Len(res.preview.lineItems)
            = Cardinality({j \in 1..Len(res.items) :
                             Resolvable(SnapItems, res.items[j])})

\* C8 witness: an unresolved input is followed by one that was resolved
C8_Witness ==
  /\ Delivered
  /\ Len(res.items) >= 2
  /\ ~Resolvable(SnapItems, res.items[1])
  /\ Resolvable(SnapItems, res.items[2])
  /\ Len(res.preview.lineItems) = 1

\* C9 as claimed: no line item has a quantity that is not a finite number
\* greater than 0, and every input with such a quantity is in unresolved with
\* reason "Invalid quantity".
C9_InvalidQuantityRejected ==
  Delivered
    => /\ \A k \in 1..Len(res.preview.lineItems) :
            FinitePositive(res.preview.lineItems[k].quantity)
       /\ Cardinality({k \in 1..Len(res.preview.unresolved) :
                         res.preview.unresolved[k].reason = "Invalid quantity"})
            = Cardinality({j \in 1..Len(res.items) :
                             ~FinitePositive(res.items[j].quantity)})

\* the inputs that pass the quantity test, in order, split by ClaimedMatch
MatchedInputs(S, items) ==
  SelectSeq(items, LAMBDA x : Resolvable(S, x))

UnmatchedInputs(S, items) ==
  SelectSeq(items, LAMBDA x : PassesQuantityCheck(x.quantity)
                               /\ ClaimedMatch(S, x) = 0)

NotFoundEntries(unresolved) ==
  SelectSeq(unresolved,
            LAMBDA u : u.reason = "Item not found in current snapshot")

\* C10: an input that passes the quantity test is priced from the sku index
\* entry of its sku if there is one, otherwise from the name index entry of
\* its normalized name if there is one, and is otherwise unresolved with
\* reason "Item not found in current snapshot".
C10_MatchOrder ==
  Delivered
    => LET S == SnapItems
           M == MatchedInputs(S, res.items)
           U == UnmatchedInputs(S, res.items)
           L == res.preview.lineItems
           N == NotFoundEntries(res.preview.unresolved)
       IN /\ Len(L) = Len(M)
          /\ \A k \in 1..Len(M) :
               /\ L[k].sku = S[ClaimedMatch(S, M[k])].sku
               /\ L[k].name = S[ClaimedMatch(S, M[k])].name
               /\ L[k].quantity = M[k].quantity
          /\ Len(N) = Len(U)
          /\ \A k \in 1..Len(U) :
               /\ N[k].sku = U[k].sku
               /\ N[k].name = U[k].name

\* C10 witness: an input whose sku names one item and whose name names
\* another was priced from the item of the sku
C10_Witness ==
  /\ Delivered
  /\ Len(res.items) = 1
  /\ LET S == SnapItems
         x == res.items[1]
     IN /\ PassesQuantityCheck(x.quantity)
        /\ x.sku.has /\ x.name.has
        /\ SkuIndexEntry(S, x.sku.v) # 0
        /\ NameIndexEntry(S, normalizeName(x.name.v)) # 0
        /\ NameIndexEntry(S, normalizeName(x.name.v)) # SkuIndexEntry(S, x.sku.v)
        /\ Len(res.preview.lineItems) = 1
        /\ res.preview.lineItems[1].sku = x.sku.v

\* the position among the line items that the line item of input j takes
\* when the resolved inputs keep their input order
Rank(S, items, j) == Cardinality({i \in 1..j : Resolvable(S, items[i])})

\* C11: the k-th line item of a preview comes from the k-th resolved input:
\* a resolved input's line item stands at the position given by the number
\* of resolved inputs up to it, so the relative order of the inputs is kept.
C11_InputOrderKept ==
  Delivered =>
    \A j \in 1..Len(res.items) :
      Resolvable(SnapItems, res.items[j]) =>
        LET r == Rank(SnapItems, res.items, j)
        IN /\ r <= Len(res.preview.lineItems)
           /\ res.preview.lineItems[r].quantity = res.items[j].quantity
           /\ res.preview.lineItems[r].sku =
                SnapItems[ClaimedMatch(SnapItems, res.items[j])].sku

\* C11 witness: a list of two inputs, both resolved, to different line items
C11_Witness ==
  /\ Delivered
  /\ Len(res.preview.lineItems) = 2
  /\ res.preview.lineItems[1] # res.preview.lineItems[2]
  /\ res.items # <<>> /\ Resolvable(SnapItems, res.items[1])
  /\ Len(res.items) = Len(res.preview.lineItems)

\* C12: lookupPrice and the resolver, asked for the same sku and name
\* against the same snapshot, pick the same catalog item or both none.
C12_LookupAgreesWithResolver ==
  ( /\ Delivered
    /\ look.done
    /\ look.snap = res.snap
    /\ Len(res.items) = 1
    /\ res.items[1].sku = look.sku
    /\ res.items[1].name = look.name
    /\ PassesQuantityCheck(res.items[1].quantity) )
  => /\ look.match.found <=> Len(res.preview.lineItems) = 1
     /\ look.match.found =>
          /\ res.preview.lineItems[1].sku = look.match.item.sku
          /\ res.preview.lineItems[1].name = look.match.item.name
          /\ res.preview.lineItems[1].unitPrice =
               round2(look.match.item.unitPrice)

\* the distinct non-empty currencies over the line items of the preview
DistinctCurrencies ==
  {c \in {"USD", "EUR"} :
     \E i \in 1..Len(res.preview.lineItems) :
       res.preview.lineItems[i].currency = [has |-> TRUE, v |-> c]}

\* C13: the preview has currency c exactly when the distinct non-empty
\* currencies of its line items are {c}; with none there is no currency and
\* no warning; with more than one there is no currency and the warnings
\* hold the mixed-currency message exactly once.
C13_CurrencyRule ==
  Delivered =>
    LET P == res.preview
    IN /\ \A c \in {"USD", "EUR"} :
            (P.currency = [has |-> TRUE, v |-> c] /\ "currency" \in P.keys)
              <=> DistinctCurrencies = {c}
       /\ P.currency.has => P.currency.v \in {"USD", "EUR"}
       /\ P.currency.has <=> "currency" \in P.keys
       /\ DistinctCurrencies = {}
            => ~P.currency.has /\ P.warnings = <<>> /\ "warnings" \notin P.keys
       /\ Cardinality(DistinctCurrencies) > 1
            => /\ ~P.currency.has
               /\ P.warnings = <<MixedCurrencies>>
               /\ "warnings" \in P.keys
       /\ Cardinality(DistinctCurrencies) = 1 => P.warnings = <<>>

\* C13 witness: a preview with line items in two currencies and its warning
C13_Witness ==
  /\ Delivered
  /\ DistinctCurrencies = {"USD", "EUR"}
  /\ res.preview.warnings # <<>>

\* C14 as claimed: a preview that carries a currency has only line items of
\* that currency, none without a currency and none with another one.
C14_CurrencySharedByAll ==
  (Delivered /\ res.preview.currency.has) =>
    \A i \in 1..Len(res.preview.lineItems) :
      res.preview.lineItems[i].currency = res.preview.currency

\* C14 as amended: a preview that carries a currency has no line item of
\* another currency; line items without a currency do not count, they are
\* summed into the subtotal all the same.
C14_CurrencySharedWhereSet ==
  (Delivered /\ res.preview.currency.has) =>
    /\ \E i \in 1..Len(res.preview.lineItems) :
         res.preview.lineItems[i].currency = res.preview.currency
    /\ \A i \in 1..Len(res.preview.lineItems) :
         res.preview.lineItems[i].currency.has
           => res.preview.lineItems[i].currency = res.preview.currency

\* C14 witness: a preview labelled with the currency of one line item, the
\* other line item has none
C14_Witness ==
  /\ Delivered /\ res.preview.currency.has
  /\ Len(res.preview.lineItems) = 2
  /\ \E i \in 1..2 : ~res.preview.lineItems[i].currency.has
  /\ res.preview.subtotal =
       Plus(res.preview.lineItems[1].totalPrice,
            res.preview.lineItems[2].totalPrice)

\* sum of the first n elements of a sequence of numbers, from the left
RECURSIVE SumFirst(_, _)
SumFirst(xs, n) ==
  IF n = 0 THEN Fin(0) ELSE Plus(SumFirst(xs, n - 1), xs[n])

\* the line totals section 4.3 gives the resolvable inputs of the request
ExpectedTotals ==
  LET R == SelectSeq(res.items, LAMBDA i : Resolvable(SnapItems, i))
  IN [k \in 1..Len(R) |->
        round2(Times(SnapItems[ClaimedMatch(SnapItems, R[k])].unitPrice,
                     R[k].quantity))]

\* C15: the subtotal is round2 of the sum of the totalPrice of the line
\* items of the preview, which are the totals of exactly the resolved
\* inputs, whether or not the currencies are mixed.
C15_SubtotalIsRoundedSum ==
  Delivered =>
    LET L == res.preview.lineItems
        totals == [k \in 1..Len(L) |-> L[k].totalPrice]
    IN /\ res.preview.subtotal = round2(SumFirst(totals, Len(totals)))
       /\ totals = ExpectedTotals

\* C15 witness: a positive subtotal over two line items of different
\* currencies
C15_Witness ==
  /\ Delivered
  /\ Len(res.preview.lineItems) = 2
  /\ res.preview.warnings # <<>>
  /\ res.preview.subtotal.k = "fin" /\ res.preview.subtotal.v > 0
  /\ res.preview.lineItems[1].totalPrice # res.preview.subtotal

\* C15 witness for the unresolved inputs: they add nothing to the subtotal
C15_WitnessUnresolved ==
  /\ Delivered
  /\ Len(res.preview.lineItems) = 1
  /\ res.preview.unresolved # <<>>
  /\ res.preview.subtotal = res.preview.lineItems[1].totalPrice

\* C17 as claimed: every finished direct call of generateQuotationPreview
\* has read the store exactly once.
C17_ExactlyOneRead ==
  (res.kind # "none" /\ res.via = "call") => res.reads = 1

\* C17 as amended: a call reads the store once, or not at all when the
\* list is empty or absent, and no step of a call or request, successful or
\* failing, changes the snapshots.
C17_OneReadNoWrite ==
  [][(req' # req \/ res' # res) =>
       /\ snaps' = snaps
       /\ (res'.kind # "none" /\ res'.via = "call") =>
            res'.reads = IF res'.isArray /\ res'.items # <<>> THEN 1 ELSE 0
       /\ (res'.kind # "none" /\ res'.via = "post" /\ res'.cause \notin
              {"parse", "validation"}) => res'.reads = 1]_vars

\* C17 witness: a call has failed after its read while the store holds
\* snapshots
C17_Witness ==
  /\ res.kind = "threw" /\ res.reads = 1
  /\ snaps # <<>>

\* rounding of thousandths to the cent, ties to the cent of larger
\* absolute value
HalfAwayFromZero(v) ==
  IF v >= 0 THEN 10 * ((v + 5) \div 10) ELSE 0 - 10 * ((5 - v) \div 10)

\* C16 as claimed: round2 rounds every value, positive or negative, to two
\* decimals with ties going away from zero.
C16_TiesAwayFromZero ==
  (pin.fn = "round2" /\ pout.done /\ pin.n.k = "fin")
    => pout.y = Fin(HalfAwayFromZero(pin.n.v))

\* C18: normalizing a normalized name changes nothing:
\* normalize(normalize(s)) = normalize(s) for every name s, the empty and
\* the absent name included.
C18_NormalizeIdempotent ==
  (pin.fn = "normalizeName" /\ pout.done) => pout.y.twice = pout.y.once

\* C18 witness: a name that the first pass changed into a non-empty name
\* with an inner space
C18_Witness ==
  /\ pin.fn = "normalizeName" /\ pout.done
  /\ pin.name.has /\ pout.y.once # pin.name.v
  /\ \E i \in 1..Len(pout.y.once) : pout.y.once[i] = " "

\* the name holds marker m at some position, whatever the case of its letters
HoldsMarker(str, m) ==
  \E i \in 1..(Len(str) - Len(m) + 1) :
    \A k \in 1..Len(m) : ToLowerChar(str[i + k - 1]) = m[k]

\* C19 as claimed: inferUnit returns for every name, the empty and the
\* absent name included, and never raises: "kg" when the name holds one of
\* the markers kg, kgs, (kgs), kilogram in any case, "unit" otherwise.
C19_InferUnitTotal ==
  (pin.fn = "inferUnitFromName" /\ pout.done) =>
    /\ ~pout.threw
    /\ pout.y = IF \E m \in {<<"k", "g">>, <<"k", "g", "s">>,
                              <<"(", "k", "g", "s", ")">>,
                              <<"k", "i", "l", "o", "g", "r", "a", "m">>} :
                     HoldsMarker(OrEmpty(pin.name), m)
                THEN "kg" ELSE "unit"

\* the five indices of a result, in the order of Labels
Indices(r) ==
  <<r.skuIdx, r.nameIdx, r.basePriceListIdx, r.currencyIdx, r.unitPriceIdx>>

\* two strings equal when the case of their letters is ignored
EqualIgnoringCase(a, b) ==
  /\ Len(a) = Len(b)
  /\ \A i \in 1..Len(a) : ToLowerChar(a[i]) = ToLowerChar(b[i])

\* a string without its leading and trailing white space
Stripped(str) ==
  LET inner == {i \in 1..Len(str) : str[i] \notin WhiteSpace}
  IN IF inner = {} THEN <<>>
     ELSE SubSeq(str, CHOOSE i \in inner : \A j \in inner : i <= j,
                      CHOOSE i \in inner : \A j \in inner : i >= j)

\* C20 as claimed: every index is -1 or the position of a header equal to
\* the label when case is ignored, and two labels never share a position.
C20_ExactIgnoringCase ==
  (pin.fn = "mapHeadersToIndices" /\ pout.done) =>
    LET idx == Indices(pout.y)
    IN /\ ~pout.threw
       /\ \A l \in 1..Len(Labels) :
            \/ idx[l] = -1
            \/ /\ idx[l] \in 0..(Len(pin.headers) - 1)
               /\ pin.headers[idx[l] + 1].has
               /\ EqualIgnoringCase(pin.headers[idx[l] + 1].v, Labels[l])
       /\ \A l, m \in 1..Len(Labels) :
            (l # m /\ idx[l] # -1) => idx[l] # idx[m]

\* C20 as amended: the match ignores case and the white space around the
\* header; an index is -1 exactly when no header matches the label, else
\* the position of the first header that does; two labels never share a
\* position, and no header row raises an error.
C20_ExactIgnoringCaseAndPadding ==
  (pin.fn = "mapHeadersToIndices" /\ pout.done) =>
    LET idx == Indices(pout.y)
        Match(i, l) == /\ pin.headers[i].has
                       /\ EqualIgnoringCase(Stripped(pin.headers[i].v),
                                            Labels[l])
    IN /\ ~pout.threw
       /\ \A l \in 1..Len(Labels) :
            /\ idx[l] = -1 <=> ~\E i \in 1..Len(pin.headers) : Match(i, l)
            /\ idx[l] # -1 =>
                 /\ idx[l] \in 0..(Len(pin.headers) - 1)
                 /\ Match(idx[l] + 1, l)
                 /\ \A j \in 1..idx[l] : ~Match(j, l)
       /\ \A l, m \in 1..Len(Labels) :
            (l # m /\ idx[l] # -1) => idx[l] # idx[m]

\* C20 witness: the column headed "Primary Currency - Base Price (currency)"
\* comes first, padded, the column headed "Primary Currency - Base Price"
\* second, and each label got its own column; the other labels are absent
C20_Witness ==
  /\ pin.fn = "mapHeadersToIndices" /\ pout.done
  /\ pout.y.currencyIdx = 0 /\ pout.y.unitPriceIdx = 1
  /\ pout.y.skuIdx = -1
  /\ pin.headers[1].v # BasePriceCurrency

\* the last item of S with sku k, 0 if there is none
LastWithSku(S, k) ==
  LET hits == {i \in 1..Len(S) : S[i].sku = k}
  IN IF hits = {} THEN 0 ELSE CHOOSE i \in hits : \A j \in hits : j <= i

\* the last item of S with normalized name n, 0 if there is none
LastWithName(S, n) ==
  LET hits == {i \in 1..Len(S) : S[i].normalizedName = n}
  IN IF hits = {} THEN 0 ELSE CHOOSE i \in hits : \A j \in hits : j <= i

\* C21: of several snapshot items with the same sku, or the same normalized
\* name, the one that comes last in the snapshot prices the request: a
\* one-input request for that sku (or, the sku giving nothing, that name)
\* yields the line item of the last such item.
C21_LastDuplicateWins ==
  (Delivered /\ Len(res.items) = 1
     /\ PassesQuantityCheck(res.items[1].quantity)) =>
    LET S == SnapItems
        x == res.items[1]
        L == res.preview.lineItems
        bySku == IF TruthySku(x.sku) THEN LastWithSku(S, x.sku.v) ELSE 0
        byName == IF TruthyName(x.name) /\ normalizeName(x.name.v) # <<>>
                  THEN LastWithName(S, normalizeName(x.name.v)) ELSE 0
        last == IF bySku # 0 THEN bySku ELSE byName
    IN last # 0 =>
         /\ Len(L) = 1
         /\ L[1].sku = S[last].sku
         /\ L[1].name = S[last].name
         /\ L[1].unitPrice = round2(S[last].unitPrice)

\* C21 witness: the sku of the request is the sku of two snapshot items of
\* different names, and the line item has the name of the second
C21_Witness ==
  /\ Delivered /\ Len(res.items) = 1 /\ Len(res.preview.lineItems) = 1
  /\ res.items[1].sku.has
  /\ \E i, j \in 1..Len(SnapItems) :
       /\ i < j
       /\ SnapItems[i].sku = res.items[1].sku.v
       /\ SnapItems[j].sku = res.items[1].sku.v
       /\ SnapItems[i].name # SnapItems[j].name
       /\ res.preview.lineItems[1].name = SnapItems[j].name

\* C21 witness for names: two snapshot items share the normalized name of
\* the request, which is priced from the second
C21_WitnessName ==
  /\ Delivered /\ Len(res.items) = 1 /\ Len(res.preview.lineItems) = 1
  /\ ~res.items[1].sku.has
  /\ \E i, j \in 1..Len(SnapItems) :
       /\ i < j
       /\ SnapItems[i].normalizedName = normalizeName(res.items[1].name.v)
       /\ SnapItems[j].normalizedName = normalizeName(res.items[1].name.v)
       /\ SnapItems[i].sku # SnapItems[j].sku
       /\ res.preview.lineItems[1].sku = SnapItems[j].sku

\* C22 as claimed: a matched item whose unitPrice is missing or not a
\* number is priced 0: its line item has unitPrice 0 and totalPrice 0, and
\* the subtotal is a finite number.
C22_BadPriceIsZero ==
  (Delivered /\ \A j \in 1..Len(res.items) : res.items[j].quantity.k = "fin") =>
    /\ \A j \in 1..Len(res.items) :
         (/\ Resolvable(SnapItems, res.items[j])
          /\ SnapItems[ClaimedMatch(SnapItems, res.items[j])].unitPrice.k
               \in {"undef", "nan"})
           => LET li == res.preview.lineItems[Rank(SnapItems, res.items, j)]
              IN li.unitPrice = Fin(0) /\ li.totalPrice = Fin(0)
    /\ res.preview.subtotal.k = "fin"

\* C23 as claimed: in every line item the total is round2 of the product of
\* the unit price and the quantity that the line item itself carries.
C23_LineItemConsistent ==
  Delivered =>
    \A i \in 1..Len(res.preview.lineItems) :
      LET li == res.preview.lineItems[i]
      IN li.totalPrice = round2(Times(li.unitPrice, li.quantity))

\* C24: warnings and unresolved are fields of a returned preview exactly
\* when they have an entry, never as empty arrays; this holds for the
\* preview of an empty list too.
C24_ArraysOnlyWhenNonEmpty ==
  (res.kind = "returned" \/ (res.kind = "response" /\ res.status = 200)) =>
    /\ "warnings" \in res.preview.keys <=> Len(res.preview.warnings) > 0
    /\ "unresolved" \in res.preview.keys <=> Len(res.preview.unresolved) > 0
    /\ {"lineItems", "subtotal"} \subseteq res.preview.keys

\* C24 witness: a preview with unresolved entries and no warnings field
C24_Witness ==
  /\ Delivered
  /\ "unresolved" \in res.preview.keys
  /\ "warnings" \notin res.preview.keys
  /\ res.preview.lineItems # <<>>

\* C24 witness: a preview with the warnings field and no unresolved field
C24_WitnessWarnings ==
  /\ Delivered
  /\ "warnings" \in res.preview.keys
  /\ "unresolved" \notin res.preview.keys

\* C25: the step that delivers a preview reads one snapshot, which is
\* current at that moment, and every line item of the preview is the line
\* item of an item of that snapshot, whatever captures and promotions ran
\* since the call began.
C25_OneSnapshotPerPreview ==
  [][(/\ res' # res
      /\ res'.kind \in {"returned", "response"}
      /\ res'.query = "ok" /\ res'.snap # 0) =>
       /\ res'.snap \in CurrentIds
       /\ \A k \in 1..Len(res'.preview.lineItems) :
            \E i \in 1..Len(snaps[res'.snap].items) :
              LET item == snaps[res'.snap].items[i]
                  li == res'.preview.lineItems[k]
              IN /\ li.sku = item.sku
                 /\ li.name = item.name
                 /\ li.unitPrice = round2(item.unitPrice)
                 /\ li.currency.v = item.currency]_vars

\* C25 witness: a preview was priced from the snapshot that was current at
\* its read, a different price list was captured before the read and
\* promoted after it
C25_Witness ==
  /\ Delivered /\ res.preview.lineItems # <<>>
  /\ ~snaps[res.snap].current
  /\ \E i \in CurrentIds : snaps[i].items # snaps[res.snap].items

\* C26: messages.create is idempotent per messageId: no two message records
\* share a messageId, and a create for a messageId that is stored returns
\* the stored record's id and leaves every message (its status included),
\* every customer (its messageCount included) and the log as they were.
C26_CreateIdempotent ==
  [][/\ \A i, j \in 1..Len(mail'.messages) :
          mail'.messages[i].messageId = mail'.messages[j].messageId => i = j
     /\ \A i \in 1..Len(mail.messages) :
          (/\ mail'.calls # mail.calls
           /\ mail.messages[i].messageId = mail'.args.messageId) =>
            /\ mail'.ret = i
            /\ mail'.messages = mail.messages
            /\ mail'.customers = mail.customers
            /\ mail'.logs = mail.logs]_vars

\* C26 witness: a message was created, set to parsed, and created again as
\* received; it is the one record, still parsed, of a customer with one
\* message
C26_Witness ==
  /\ mail.calls > 1
  /\ Len(mail.messages) = 1
  /\ mail.ret = 1
  /\ mail.args.messageId = mail.messages[1].messageId
  /\ mail.args.status = "received"
  /\ mail.messages[1].status = "parsed"
  /\ Len(mail.customers) = 1 /\ mail.customers[1].messageCount = 1

\* C27: a run that has set its message to processing leads to the message
\* being parsed or failed.
C27_ProcessingEnds == run.began ~> (run.status \in {"parsed", "failed"})

\* C28: once handleOpenAIError has handled an authentication error the
\* message is failed and the event causes no further OpenAI call.
C28_AuthFailureNotRetried ==
  run.auth # 0 => (run.calls = run.auth /\ run.status = "failed")

RECURSIVE Concat(_)
Concat(lists) ==
  IF lists = <<>> THEN <<>> ELSE Head(lists) \o Concat(Tail(lists))

\* C30: every pass of processBatch's split loop moves the index forward, so
\* the loop ends, and a run that returns has sent batches that are the ids
\* in order, each id once, none larger than batchSize.
C30_TerminatesWithPartition ==
  [][/\ (batch.pc = "split" /\ batch'.pc = "split") => batch'.i > batch.i
     /\ batch'.pc = "returned" =>
          /\ Concat(batch'.batches) = batch'.messageIds
          /\ \A b \in 1..Len(batch'.batches) :
               Len(batch'.batches[b]) <= batch'.batchSize
          /\ [b \in 1..Len(batch'.results) |-> batch'.results[b].ids]
               = batch'.batches]_vars

====
